---- MODULE Spec2Model ----
(***************************************************************************)
(* A model of py_uncomment.py: the comment and docstring stripper          *)
(* (remove_comments_and_docstrings and its helpers) and the backup-then-   *)
(* write file step (process_file, make_backup, select_file).               *)
(*                                                                         *)
(* A text is a sequence of characters (strings of length 1).  The standard *)
(* library calls the program makes (tokenize.generate_tokens,              *)
(* tokenize.untokenize, ast.parse, str.splitlines, str.strip) are modelled *)
(* as CPython 3.11 computes them on the characters the inputs use: names,  *)
(* digits, ';', '=', spaces, '#' comments, "..." and triple-quoted string  *)
(* literals without backslashes or prefixes, continuation backslashes and  *)
(* '\n' line ends.                                                         *)
(***************************************************************************)
EXTENDS Integers, Sequences, FiniteSets, TLC

(***************************************************************************)
(* Characters and sequences of characters.                                 *)
(***************************************************************************)
LowerLetters == {"a", "c", "d", "e", "f", "g", "h", "i", "l", "m", "n", "o",
                 "s", "t", "v", "x", "y"}
UpperLetters == {"A", "C", "D", "E", "F", "G", "H", "I", "L", "M", "N", "O",
                 "S", "T", "V", "X", "Y"}
WideLetters == {"U+00E9"}
Digits == {"1", "2", "3", "4"}
OpChars == {";", "="}
Quote == "\""

\* str.upper() on one character.
UpperChar(c) ==
    CASE c = "a" -> "A" [] c = "c" -> "C" [] c = "d" -> "D" [] c = "e" -> "E"
      [] c = "f" -> "F" [] c = "g" -> "G" [] c = "h" -> "H" [] c = "i" -> "I" [] c = "l" -> "L"
      [] c = "m" -> "M" [] c = "n" -> "N" [] c = "o" -> "O" [] c = "s" -> "S"
      [] c = "t" -> "T" [] c = "v" -> "V" [] c = "x" -> "X" [] c = "y" -> "Y"
      [] c = "U+00E9" -> "U+00C9"
      [] OTHER -> c

\* str.lower() on one character.
LowerChar(c) ==
    CASE c = "A" -> "a" [] c = "C" -> "c" [] c = "D" -> "d" [] c = "E" -> "e"
      [] c = "F" -> "f" [] c = "G" -> "g" [] c = "H" -> "h" [] c = "I" -> "i" [] c = "L" -> "l"
      [] c = "M" -> "m" [] c = "N" -> "n" [] c = "O" -> "o" [] c = "S" -> "s"
      [] c = "T" -> "t" [] c = "V" -> "v" [] c = "X" -> "x" [] c = "Y" -> "y"
      [] c = "U+00C9" -> "U+00E9"
      [] OTHER -> c

Upper(s) == [i \in 1..Len(s) |-> UpperChar(s[i])]
Lower(s) == [i \in 1..Len(s) |-> LowerChar(s[i])]

\* s.startswith(p)
StartsWith(s, p) == Len(p) <= Len(s) /\ SubSeq(s, 1, Len(p)) = p

\* p in s (substring test)
Contains(s, p) ==
    \E i \in 1..(Len(s) - Len(p) + 1) : SubSeq(s, i, i + Len(p) - 1) = p

\* c * n
Rep(c, n) == [i \in 1..n |-> c]

\* "".join(parts)
RECURSIVE Join(_)
Join(parts) == IF parts = <<>> THEN <<>> ELSE Head(parts) \o Join(Tail(parts))

\* The number of bytes of the UTF-8 encoding of a text.
RECURSIVE ByteLen(_)
ByteLen(s) ==
    IF s = <<>> THEN 0
    ELSE (IF Head(s) \in WideLetters \cup {"U+00C9"} THEN 2 ELSE 1) + ByteLen(Tail(s))

(***************************************************************************)
(* Lines: io.StringIO.readline and str.splitlines(keepends=True) both cut  *)
(* a text after each '\n' (the only line end the inputs use).              *)
(***************************************************************************)
RECURSIVE LinesFrom(_, _, _)
LinesFrom(s, i, cur) ==
    IF i > Len(s) THEN (IF cur = <<>> THEN <<>> ELSE <<cur>>)
    ELSE IF s[i] = "\n" THEN <<Append(cur, s[i])>> \o LinesFrom(s, i + 1, <<>>)
    ELSE LinesFrom(s, i + 1, Append(cur, s[i]))

splitlines(s) == LinesFrom(s, 1, <<>>)

\* str.strip(): leading and trailing whitespace removed.
IsSpace(c) == c \in {" ", "\n"}

RECURSIVE lstrip(_)
lstrip(s) == IF s # <<>> /\ IsSpace(Head(s)) THEN lstrip(Tail(s)) ELSE s

RECURSIVE rstrip(_)
rstrip(s) ==
    IF s # <<>> /\ IsSpace(s[Len(s)]) THEN rstrip(SubSeq(s, 1, Len(s) - 1)) ELSE s

strip(s) == rstrip(lstrip(s))

(***************************************************************************)
(* tokenize.generate_tokens (tokenize._tokenize of CPython 3.11).          *)
(* Positions are (row, col): rows from 1, columns from 0, in characters.   *)
(***************************************************************************)
Tok(type, string, srow, scol, erow, ecol) ==
    [type |-> type, string |-> string, start |-> <<srow, scol>>,
     end |-> <<erow, ecol>>]

\* line[a:b] with Python's 0-based, end-exclusive indices
Slice(line, a, b) == SubSeq(line, a + 1, b)

\* The Whitespace pattern: the first index >= pos that holds no space.
RECURSIVE SkipSpaces(_, _)
SkipSpaces(line, pos) ==
    IF pos < Len(line) /\ line[pos + 1] = " " THEN SkipSpaces(line, pos + 1)
    ELSE pos

\* The end of a maximal run of characters of set cs that starts at pos.
RECURSIVE RunEnd(_, _, _)
RunEnd(line, pos, cs) ==
    IF pos < Len(line) /\ line[pos + 1] \in cs THEN RunEnd(line, pos + 1, cs)
    ELSE pos

WordChars == LowerLetters \cup UpperLetters \cup WideLetters \cup Digits \cup {"_"}

\* The Comment pattern #[^\r\n]*: the end of the comment that starts at pos.
RECURSIVE CommentEnd(_, _)
CommentEnd(line, pos) ==
    IF pos < Len(line) /\ line[pos + 1] # "\n" THEN CommentEnd(line, pos + 1)
    ELSE pos

\* The Triple pattern: three quotes at pos.
IsTriple(line, pos) ==
    pos + 3 <= Len(line) /\ Slice(line, pos, pos + 3) = <<Quote, Quote, Quote>>

\* The Double3 end pattern matched from pos: the index after the first three
\* quotes at or after pos (a backslash escapes the character after it, which
\* cannot be a line end), or -1.
RECURSIVE EndTriple(_, _)
EndTriple(line, pos) ==
    IF pos + 3 > Len(line) THEN -1
    ELSE IF line[pos + 1] = "\\"
    THEN IF line[pos + 2] = "\n" THEN -1 ELSE EndTriple(line, pos + 2)
    ELSE IF IsTriple(line, pos) THEN pos + 3
    ELSE EndTriple(line, pos + 1)

\* The ContStr pattern after an opening quote: the index after the closing
\* quote on the same line, or after a backslash and the line end (a string
\* continued on the next line), or -1.
RECURSIVE EndSingle(_, _)
EndSingle(line, pos) ==
    IF pos >= Len(line) \/ line[pos + 1] = "\n" THEN -1
    ELSE IF line[pos + 1] = Quote THEN pos + 1
    ELSE IF line[pos + 1] = "\\"
    THEN IF pos + 1 >= Len(line) THEN -1
         ELSE IF line[pos + 2] = "\n" THEN pos + 2
         ELSE EndSingle(line, pos + 2)
    ELSE EndSingle(line, pos + 1)

\* The Double end pattern matched from pos, for a string continued from the
\* line before: the index after the closing quote, or -1.
RECURSIVE EndDouble(_, _)
EndDouble(line, pos) ==
    IF pos >= Len(line) THEN -1
    ELSE IF line[pos + 1] = Quote THEN pos + 1
    ELSE IF line[pos + 1] = "\\"
    THEN IF pos + 1 >= Len(line) \/ line[pos + 2] = "\n" THEN -1
         ELSE EndDouble(line, pos + 2)
    ELSE EndDouble(line, pos + 1)

Emit(st, tok) == [st EXCEPT !.toks = Append(@, tok)]

\* The inner loop, while pos < max: the tokens of one line from pos on.
RECURSIVE ScanLine(_, _, _, _)
ScanLine(line, lnum, pos, st) ==
    LET max == Len(line)
        p == SkipSpaces(line, pos)
    IN
    IF pos >= max \/ p = max THEN st
    ELSE
      LET c == line[p + 1] IN
      IF c = "\\" /\ p + 1 < max /\ line[p + 2] = "\n"
      THEN ScanLine(line, lnum, p + 2, [st EXCEPT !.continued = TRUE])
      ELSE IF c = "#"
      THEN LET e == CommentEnd(line, p) IN
           ScanLine(line, lnum, e,
                    Emit(st, Tok("COMMENT", Slice(line, p, e), lnum, p, lnum, e)))
      ELSE IF IsTriple(line, p)
      THEN LET e == EndTriple(line, p + 3) IN
           IF e >= 0
           THEN ScanLine(line, lnum, e,
                         Emit(st, Tok("STRING", Slice(line, p, e), lnum, p, lnum, e)))
           ELSE [st EXCEPT !.contstr = Slice(line, p, max),
                           !.strstart = <<lnum, p>>, !.endprog = "Double3"]
      ELSE IF c \in Digits
      THEN LET e == RunEnd(line, p, Digits) IN
           ScanLine(line, lnum, e,
                    Emit(st, Tok("NUMBER", Slice(line, p, e), lnum, p, lnum, e)))
      ELSE IF c = "\n"
      THEN ScanLine(line, lnum, p + 1,
                    Emit(st, Tok("NEWLINE", <<c>>, lnum, p, lnum, p + 1)))
      ELSE IF c \in OpChars
      THEN LET e == IF c = "=" /\ p + 1 < max /\ line[p + 2] = "=" THEN p + 2
                    ELSE p + 1
           IN ScanLine(line, lnum, e,
                       Emit(st, Tok("OP", Slice(line, p, e), lnum, p, lnum, e)))
      ELSE IF c = Quote /\ EndSingle(line, p + 1) >= 0
      THEN LET e == EndSingle(line, p + 1) IN
           IF line[e] = "\n"
           THEN [st EXCEPT !.contstr = Slice(line, p, max),
                           !.strstart = <<lnum, p>>, !.endprog = "Double",
                           !.needcont = TRUE]
           ELSE ScanLine(line, lnum, e,
                         Emit(st, Tok("STRING", Slice(line, p, e), lnum, p, lnum, e)))
      ELSE IF c \in WordChars
      THEN LET e == RunEnd(line, p, WordChars) IN
           ScanLine(line, lnum, e,
                    Emit(st, Tok("NAME", Slice(line, p, e), lnum, p, lnum, e)))
      ELSE ScanLine(line, lnum, pos + 1,
                    Emit(st, Tok("ERRORTOKEN", <<line[pos + 1]>>, lnum, pos,
                                 lnum, pos + 1)))

\* while column < indents[-1]: one DEDENT per level left, IndentationError
\* when the column is no outer level.
RECURSIVE Dedent(_, _, _)
Dedent(st, lnum, column) ==
    IF column >= st.indents[Len(st.indents)] THEN st
    ELSE IF \A i \in 1..Len(st.indents) : st.indents[i] # column
    THEN [st EXCEPT !.err = "IndentationError"]
    ELSE Dedent([st EXCEPT !.indents = SubSeq(@, 1, Len(@) - 1),
                           !.toks = Append(@, Tok("DEDENT", <<>>, lnum, column,
                                                  lnum, column))],
                lnum, column)

Indent(st, line, lnum, column) ==
    IF column > st.indents[Len(st.indents)]
    THEN [st EXCEPT !.indents = Append(@, column),
                    !.toks = Append(@, Tok("INDENT", Slice(line, 0, column),
                                           lnum, 0, lnum, column))]
    ELSE Dedent(st, lnum, column)

\* After the loop over lines: the implicit NEWLINE, the DEDENTs, ENDMARKER.
Epilogue(lines, lnum, st) ==
    LET last_line == IF lnum >= 2 THEN lines[lnum - 1] ELSE <<>>
        n == Len(last_line)
        nl == IF last_line # <<>> /\ last_line[n] # "\n"
                 /\ ~StartsWith(strip(last_line), <<"#">>)
              THEN <<Tok("NEWLINE", <<>>, lnum - 1, n, lnum - 1, n + 1)>>
              ELSE <<>>
        dedents == [i \in 1..(Len(st.indents) - 1) |->
                       Tok("DEDENT", <<>>, lnum, 0, lnum, 0)]
    IN [st EXCEPT !.toks = @ \o nl \o dedents
                            \o <<Tok("ENDMARKER", <<>>, lnum, 0, lnum, 0)>>]

\* The loop over lines; lnum is the number of the line being read, and a line
\* past the last is the empty text readline returns at the end of the input.
RECURSIVE TokLines(_, _, _)
TokLines(lines, lnum, st) ==
    LET line == IF lnum <= Len(lines) THEN lines[lnum] ELSE <<>>
        max == Len(line)
    IN
    IF st.contstr # <<>>
    THEN IF line = <<>> THEN [st EXCEPT !.err = "TokenError"]
         ELSE LET e == IF st.endprog = "Double" THEN EndDouble(line, 0)
                       ELSE EndTriple(line, 0)
              IN
              IF e >= 0
              THEN TokLines(lines, lnum + 1,
                     ScanLine(line, lnum, e,
                       [st EXCEPT !.contstr = <<>>, !.needcont = FALSE,
                                  !.toks = Append(@,
                                     Tok("STRING", st.contstr \o Slice(line, 0, e),
                                         st.strstart[1], st.strstart[2], lnum, e))]))
              ELSE IF st.needcont
                      /\ ~(max >= 2 /\ Slice(line, max - 2, max) = <<"\\", "\n">>)
              THEN TokLines(lines, lnum + 1,
                     [st EXCEPT !.contstr = <<>>,
                                !.toks = Append(@,
                                   Tok("ERRORTOKEN", st.contstr \o line,
                                       st.strstart[1], st.strstart[2], lnum, max))])
              ELSE TokLines(lines, lnum + 1, [st EXCEPT !.contstr = @ \o line])
    ELSE IF ~st.continued
    THEN IF line = <<>> THEN Epilogue(lines, lnum, st)
         ELSE LET pos == SkipSpaces(line, 0) IN
              IF pos = max THEN Epilogue(lines, lnum, st)
              ELSE IF line[pos + 1] \in {"#", "\n"}
              THEN LET e == IF line[pos + 1] = "#" THEN CommentEnd(line, pos)
                            ELSE pos
                       comment == IF line[pos + 1] = "#"
                                  THEN <<Tok("COMMENT", Slice(line, pos, e),
                                             lnum, pos, lnum, e)>>
                                  ELSE <<>>
                   IN TokLines(lines, lnum + 1,
                        [st EXCEPT !.toks = @ \o comment
                             \o <<Tok("NL", Slice(line, e, max), lnum, e,
                                      lnum, max)>>])
              ELSE LET st2 == Indent(st, line, lnum, pos) IN
                   IF st2.err # "" THEN st2
                   ELSE TokLines(lines, lnum + 1, ScanLine(line, lnum, pos, st2))
    ELSE IF line = <<>> THEN [st EXCEPT !.err = "TokenError"]
         ELSE TokLines(lines, lnum + 1,
                       ScanLine(line, lnum, 0, [st EXCEPT !.continued = FALSE]))

\* list(tokenize.generate_tokens(io.StringIO(source).readline)):
\* [err |-> "" and the tokens, or the exception raised]
generate_tokens(source) ==
    LET st == TokLines(splitlines(source), 1,
                       [toks |-> <<>>, continued |-> FALSE, contstr |-> <<>>,
                        needcont |-> FALSE, endprog |-> "", strstart |-> <<0, 0>>, indents |-> <<0>>, err |-> ""])
    IN [err |-> st.err, toks |-> IF st.err = "" THEN st.toks ELSE <<>>]

(***************************************************************************)
(* tokenize.untokenize (Untokenizer.untokenize of CPython 3.11, on full    *)
(* five-element tokens).                                                   *)
(***************************************************************************)
\* An add_whitespace that fills the rows between two tokens but not the
\* columns.
add_whitespace_rows_only(u, start) ==
    IF start[1] < u.prev_row \/ (start[1] = u.prev_row /\ start[2] < u.prev_col)
    THEN [u EXCEPT !.err = "ValueError"]
    ELSE [u EXCEPT !.out = @ \o Join(Rep(<<"\\", "\n">>, start[1] - u.prev_row)),
                   !.prev_col = IF start[1] # u.prev_row THEN 0 ELSE u.prev_col]

add_whitespace(u, start) ==
    LET row == start[1]
        col == start[2]
    IN
    IF row < u.prev_row \/ (row = u.prev_row /\ col < u.prev_col)
    THEN [u EXCEPT !.err = "ValueError"]
    ELSE LET row_offset == row - u.prev_row
             prev_col == IF row_offset # 0 THEN 0 ELSE u.prev_col
             lines == Join(Rep(<<"\\", "\n">>, row_offset))
         IN [u EXCEPT !.out = @ \o lines \o Rep(" ", col - prev_col),
                      !.prev_col = prev_col]

IsLineEnd(t) == t.type \in {"NEWLINE", "NL"}

RECURSIVE UntokFrom(_, _, _)
UntokFrom(toks, i, u) ==
    IF i > Len(toks) \/ u.err # "" \/ toks[i].type = "ENDMARKER" THEN u
    ELSE
      LET t == toks[i] IN
      IF t.type = "INDENT"
      THEN UntokFrom(toks, i + 1, [u EXCEPT !.indents = Append(@, t.string)])
      ELSE IF t.type = "DEDENT"
      THEN IF u.indents = <<>> THEN [u EXCEPT !.err = "IndexError"]
           ELSE UntokFrom(toks, i + 1,
                          [u EXCEPT !.indents = SubSeq(@, 1, Len(@) - 1),
                                    !.prev_row = t.end[1], !.prev_col = t.end[2]])
      ELSE
        LET indent == u.indents[Len(u.indents)]
            u1 == IF IsLineEnd(t) THEN [u EXCEPT !.startline = TRUE]
                  ELSE IF u.startline /\ u.indents # <<>>
                  THEN IF t.start[2] >= Len(indent)
                       THEN [u EXCEPT !.out = @ \o indent,
                                      !.prev_col = Len(indent),
                                      !.startline = FALSE]
                       ELSE [u EXCEPT !.startline = FALSE]
                  ELSE u
            u2 == add_whitespace(u1, t.start)
        IN IF u2.err # "" THEN u2
           ELSE UntokFrom(toks, i + 1,
                  [u2 EXCEPT !.out = @ \o t.string,
                             !.prev_row = IF IsLineEnd(t) THEN t.end[1] + 1
                                          ELSE t.end[1],
                             !.prev_col = IF IsLineEnd(t) THEN 0 ELSE t.end[2]])

\* tokenize.untokenize(tokens): [err |-> "" and the text, or the exception]
untokenize(toks) ==
    LET u == UntokFrom(toks, 1, [out |-> <<>>, prev_row |-> 1, prev_col |-> 0,
                                 indents |-> <<>>, startline |-> FALSE,
                                 err |-> ""])
    IN [err |-> u.err, text |-> u.out]

(***************************************************************************)
(* ast.parse, as far as find_string_statement_positions reads its result:  *)
(* whether the text parses and, when it does, the expression statements    *)
(* that are a string constant.  The statements the inputs use are          *)
(* assignments and expression statements of one name, number or string     *)
(* (adjacent string literals make one constant), several on a line with    *)
(* ';'; without a compound statement every indented statement is an        *)
(* IndentationError, a SyntaxError.  A node's col_offset is the UTF-8 byte *)
(* offset in its line, while a token's column counts characters.           *)
(***************************************************************************)
IsBareString(stmt) ==
    stmt # <<>> /\ \A i \in 1..Len(stmt) : stmt[i].type = "STRING"

IsAtom(stmt) ==
    \/ Len(stmt) = 1 /\ stmt[1].type \in {"NAME", "NUMBER"}
    \/ IsBareString(stmt)

\* NAME '=' ... NAME '=' atom
RECURSIVE IsSimpleStmt(_)
IsSimpleStmt(stmt) ==
    \/ IsAtom(stmt)
    \/ /\ Len(stmt) >= 3
       /\ stmt[1].type = "NAME"
       /\ stmt[2].type = "OP" /\ stmt[2].string = <<"=">>
       /\ IsSimpleStmt(SubSeq(stmt, 3, Len(stmt)))

\* The statements of a token sequence; cur is the statement being read (the
\* end of the input ends it as a NEWLINE does).
RECURSIVE StmtsFrom(_, _, _, _)
StmtsFrom(toks, i, cur, acc) ==
    IF i > Len(toks)
    THEN IF cur = <<>> THEN [ok |-> TRUE, stmts |-> acc]
         ELSE IF IsSimpleStmt(cur) THEN [ok |-> TRUE, stmts |-> Append(acc, cur)]
         ELSE [ok |-> FALSE, stmts |-> <<>>]
    ELSE
      LET t == toks[i] IN
      IF t.type \in {"COMMENT", "NL", "INDENT", "DEDENT", "ENDMARKER"}
      THEN StmtsFrom(toks, i + 1, cur, acc)
      ELSE IF t.type = "ERRORTOKEN" THEN [ok |-> FALSE, stmts |-> <<>>]
      ELSE IF t.type = "NEWLINE"
      THEN IF cur = <<>> THEN StmtsFrom(toks, i + 1, <<>>, acc)
           ELSE IF IsSimpleStmt(cur)
           THEN StmtsFrom(toks, i + 1, <<>>, Append(acc, cur))
           ELSE [ok |-> FALSE, stmts |-> <<>>]
      ELSE IF t.type = "OP" /\ t.string = <<";">>
      THEN IF cur # <<>> /\ IsSimpleStmt(cur)
           THEN StmtsFrom(toks, i + 1, <<>>, Append(acc, cur))
           ELSE [ok |-> FALSE, stmts |-> <<>>]
      ELSE StmtsFrom(toks, i + 1, Append(cur, t), acc)

\* The parser's own tokenizer measures the indentation of a logical line
\* across continuation backslashes: the column is the number of spaces read,
\* or the number read before the first backslash when that is not 0; a line
\* that then holds a comment or nothing is blank (-1) and has no indentation.
RECURSIVE IndentColumn(_, _, _, _, _)
IndentColumn(lines, k, pos, col, cont_line_col) ==
    IF k > Len(lines) \/ pos >= Len(lines[k]) THEN -1
    ELSE
      LET c == lines[k][pos + 1] IN
      IF c = " " THEN IndentColumn(lines, k, pos + 1, col + 1, cont_line_col)
      ELSE IF c = "\\" /\ pos + 2 = Len(lines[k]) /\ lines[k][pos + 2] = "\n"
      THEN IndentColumn(lines, k + 1, 0, col,
                        IF cont_line_col # 0 THEN cont_line_col ELSE col)
      ELSE IF c \in {"#", "\n"} THEN -1
      ELSE IF cont_line_col # 0 THEN cont_line_col ELSE col

\* The rows on which a logical line starts.
LineStarts(toks, lines) ==
    {r \in {1} \cup {toks[i].start[1] + 1 :
                       i \in {j \in 1..Len(toks) : IsLineEnd(toks[j])}} :
        r <= Len(lines)}

\* The value of a string literal: the text between its quotes.
StringValue(tok) ==
    LET s == tok.string IN
    IF IsTriple(s, 0) THEN SubSeq(s, 4, Len(s) - 3) ELSE SubSeq(s, 2, Len(s) - 1)

RECURSIVE ConstantValue(_)
ConstantValue(stmt) ==
    IF stmt = <<>> THEN <<>>
    ELSE StringValue(Head(stmt)) \o ConstantValue(Tail(stmt))

\* ast.parse(source): [ok |-> FALSE] for a SyntaxError, else the string
\* expression statements as [lineno, col_offset, value].
ast_parse(source) ==
    LET lexed == generate_tokens(source)
        lines == splitlines(source)
        parsed == IF lexed.err # "" THEN [ok |-> FALSE, stmts |-> <<>>]
                  ELSE IF \E r \in LineStarts(lexed.toks, lines) :
                             IndentColumn(lines, r, 0, 0, 0) > 0
                  THEN [ok |-> FALSE, stmts |-> <<>>]
                  ELSE StmtsFrom(lexed.toks, 1, <<>>, <<>>)
        Node(stmt) ==
            [lineno |-> stmt[1].start[1],
             col_offset |-> ByteLen(Slice(lines[stmt[1].start[1]], 0,
                                          stmt[1].start[2])),
             value |-> ConstantValue(stmt)]
    IN [ok |-> parsed.ok,
        exprs |-> {Node(parsed.stmts[i]) :
                     i \in {j \in 1..Len(parsed.stmts) :
                              IsBareString(parsed.stmts[j])}}]

(***************************************************************************)
(* py_uncomment.py                                                         *)
(***************************************************************************)
\* find_string_statement_positions: (positions, pos_to_string), the latter as
\* the set of its items
find_string_statement_positions(source) ==
    LET tree == ast_parse(source) IN
    IF ~tree.ok THEN [positions |-> {}, pos_to_string |-> {}]
    ELSE [positions |-> {<<n.lineno, n.col_offset>> : n \in tree.exprs},
          pos_to_string |-> {[pos |-> <<n.lineno, n.col_offset>>,
                              value |-> n.value] : n \in tree.exprs}]

\* pos_to_string.get(pos, "")
Get(pos_to_string, pos) ==
    IF \E e \in pos_to_string : e.pos = pos
    THEN (CHOOSE e \in pos_to_string : e.pos = pos).value
    ELSE <<>>

keywords ==
    <<
       <<"v", "o", "i", "d", " ", "m", "a", "i", "n">>,
       <<"g", "l", "_", "f", "r", "a", "g", "c", "o", "l", "o", "r">>,
       <<"g", "l", "_", "f", "r", "a", "g", "c", "o", "o", "r", "d">>,
       <<"g", "l", "_", "p", "o", "s", "i", "t", "i", "o", "n">>,
       <<"s", "a", "m", "p", "l", "e", "r", "2", "d">>,
       <<"u", "n", "i", "f", "o", "r", "m">>,
       <<"v", "a", "r", "y", "i", "n", "g">>,
       <<"#", "v", "e", "r", "s", "i", "o", "n">>,
       <<"p", "r", "e", "c", "i", "s", "i", "o", "n", " ", "m", "e", "d", "i", "u", "m", "p", " ", "f", "l", "o", "a", "t">>,
       <<"v", "e", "c", "2">>,
       <<"v", "e", "c", "3">>,
       <<"v", "e", "c", "4">>,
       <<"m", "a", "t", "3">>,
       <<"m", "a", "t", "4">>
    >>

ShaderThreshold == 2

\* is_probable_shader
is_probable_shader(text) ==
    LET snippet == Lower(text)
        score == Cardinality({i \in 1..Len(keywords) : Contains(snippet, keywords[i])})
    IN score >= ShaderThreshold

\* squeeze_empty_lines: the loop over lines; empty_count is the number of
\* blank lines seen since the last line that is not blank.
RECURSIVE SqueezeFrom(_, _, _, _)
SqueezeFrom(lines, i, empty_count, max_consecutive) ==
    IF i > Len(lines) THEN <<>>
    ELSE IF strip(lines[i]) = <<>>
    THEN (IF empty_count + 1 <= max_consecutive THEN <<lines[i]>> ELSE <<>>)
         \o SqueezeFrom(lines, i + 1, empty_count + 1, max_consecutive)
    ELSE <<lines[i]>> \o SqueezeFrom(lines, i + 1, 0, max_consecutive)

\* A squeeze that allows one blank line more than asked for.
squeeze_one_more(text, max_consecutive) ==
    Join(SqueezeFrom(splitlines(text), 1, 0, max_consecutive + 1))

squeeze_empty_lines(text, max_consecutive) ==
    Join(SqueezeFrom(splitlines(text), 1, 0, max_consecutive))

IsBackslashPlaceholder(line) == strip(line) = <<"\\">>

\* remove_backslash_placeholder_lines
remove_backslash_placeholder_lines(text) ==
    Join(SelectSeq(splitlines(text), LAMBDA line : ~IsBackslashPlaceholder(line)))

ShebangRow == 1
EncodingRows == 2

\* A comment branch without the rules for the first two lines.
KeepCommentTodoOnly(tok, keep_todo_comments) ==
    /\ keep_todo_comments
    /\ \/ Contains(Upper(tok.string), <<"T", "O", "D", "O">>)
       \/ Contains(Upper(tok.string), <<"F", "I", "X", "M", "E">>)

\* A comment branch that looks for TODO and FIXME as written, in upper case.
KeepCommentCaseSensitive(tok, keep_todo_comments) ==
    \/ tok.start[1] = 1 /\ StartsWith(tok.string, <<"#", "!">>)
    \/ /\ tok.start[1] <= 2
       /\ \/ Contains(tok.string, <<"c", "o", "d", "i", "n", "g", ":">>)
          \/ Contains(tok.string, <<"c", "o", "d", "i", "n", "g", "=">>)
    \/ /\ keep_todo_comments
       /\ \/ Contains(tok.string, <<"T", "O", "D", "O">>)
          \/ Contains(tok.string, <<"F", "I", "X", "M", "E">>)

\* The comment branch of the token loop: whether a COMMENT token is kept.
KeepComment(tok, keep_todo_comments) ==
    LET srow == tok.start[1]
        upper_comment == Upper(tok.string)
    IN \/ srow = ShebangRow /\ StartsWith(tok.string, <<"#", "!">>)
       \/ /\ srow <= EncodingRows
          /\ \/ Contains(tok.string, <<"c", "o", "d", "i", "n", "g", ":">>)
             \/ Contains(tok.string, <<"c", "o", "d", "i", "n", "g", "=">>)
       \/ /\ keep_todo_comments
          /\ \/ Contains(upper_comment, <<"T", "O", "D", "O">>)
             \/ Contains(upper_comment, <<"F", "I", "X", "M", "E">>)

\* Whether the token loop takes the string branch for a token.
IsStringStmtToken(tok, positions) ==
    tok.type = "STRING" /\ tok.start \in positions

\* The string branch of the token loop: whether the STRING token is kept.
KeepString(tok, keep_shader_strings, pos_to_string) ==
    keep_shader_strings /\ is_probable_shader(Get(pos_to_string, tok.start))

\* A token loop that also drops the NL tokens.
KeepTokenButNL(tok, o, found) ==
    /\ tok.type # "NL"
    /\ IF tok.type = "COMMENT" THEN KeepComment(tok, o.keep_todo_comments)
       ELSE IF IsStringStmtToken(tok, found.positions)
       THEN KeepString(tok, o.keep_shader_strings, found.pos_to_string)
       ELSE TRUE

\* One pass of the token loop: whether tok is appended to out_tokens.
KeepToken(tok, o, found) ==
    IF tok.type = "COMMENT" THEN KeepComment(tok, o.keep_todo_comments)
    ELSE IF IsStringStmtToken(tok, found.positions)
    THEN KeepString(tok, o.keep_shader_strings, found.pos_to_string)
    ELSE TRUE

\* The token loop: out_tokens
FilterTokens(tokens, o, found) ==
    SelectSeq(tokens, LAMBDA tok : KeepToken(tok, o, found))

\* The post-processing of the untokenized text.
Squeezed(text, o) ==
    IF o.squeeze_blank_lines THEN squeeze_empty_lines(text, 1) ELSE text

Unplaced(text, o) ==
    IF o.remove_backslash_placeholders THEN remove_backslash_placeholder_lines(text)
    ELSE text

\* The four keyword arguments.
Options ==
    [keep_shader_strings : BOOLEAN, squeeze_blank_lines : BOOLEAN,
     keep_todo_comments : BOOLEAN, remove_backslash_placeholders : BOOLEAN]

(***************************************************************************)
(* The inputs: texts of up to MaxUnits units, each a line (or a statement  *)
(* over two lines), and the example of the specification.                  *)
(***************************************************************************)
\* x = 1
Assignment == <<"x", " ", "=", " ", "1", "\n">>
\* # c
Comment == <<"#", " ", "c", "\n">>
\* x #Todo
TodoComment == <<"x", " ", "#", "T", "o", "d", "o", "\n">>
\* #!todo
Shebang == <<"#", "!", "t", "o", "d", "o", "\n">>
\* #coding:x
Coding == <<"#", "c", "o", "d", "i", "n", "g", ":", "x", "\n">>
\* "s"
Docstring == <<"\"", "s", "\"", "\n">>
\* "Void main vec2"
ShaderString == <<"\"", "V", "o", "i", "d", " ", "m", "a", "i", "n", " ",
                  "v", "e", "c", "2", "\"", "\n">>
\* x;"s" "t"
TwoLiterals == <<"x", ";", "\"", "s", "\"", " ", "\"", "t", "\"", "\n">>
\* e-acute;"s"   (the name is one character of two bytes)
WideName == <<"U+00E9", ";", "\"", "s", "\"", "\n">>
\* an empty line
BlankLine == <<"\n">>
\* a triple-quoted string over two lines
LongDocstring == <<"\"", "\"", "\"", "a", "\n", "b", "\"", "\"", "\"",
                   "\n">>
\* a backslash and the line end
Continuation == <<"\\", "\n">>
\* x indented by two spaces
Indented2 == <<" ", " ", "x", "\n">>
\* x indented by one space
Indented1 == <<" ", "x", "\n">>

Units ==
    {Assignment, Comment, TodoComment, Shebang, Coding, Docstring,
     ShaderString, TwoLiterals, WideName, BlankLine, LongDocstring,
     Continuation, Indented2, Indented1}

\* # hello / x = 1 / """doc""" / y = 2
SpecExample ==
    <<"#", " ", "h", "e", "l", "l", "o", "\n", "x", " ", "=", " ", "1",
      "\n", "\"", "\"", "\"", "d", "o", "c", "\"", "\"", "\"", "\n", "y",
      " ", "=", " ", "2", "\n">>

MaxUnits == 2

RECURSIVE Programs(_)
Programs(n) ==
    IF n = 0 THEN {<<>>}
    ELSE Programs(n - 1) \cup {p \o u : p \in Programs(n - 1), u \in Units}

Sources == Programs(MaxUnits) \cup {SpecExample}

(***************************************************************************)
(* The files.  A path is a number: Path is the file selected, BakPath is   *)
(* path + ".bak" and NumberedBakPath(counter) is f"{path}.bak{counter}".   *)
(* A file holds a text, or is Absent.                                      *)
(***************************************************************************)
Path == 0
BakPath == 1
NumberedBakPath(counter) == counter + 1

MaxBackups == 3
MaxRuns == 3

Paths == Path..NumberedBakPath(MaxBackups)
BackupPaths == Paths \ {Path}

\* The value of a path that holds no file; it is no text.
Absent == <<"absent">>

\* the file of an earlier backup: old
OldBackup == <<"o", "l", "d", "\n">>

\* The texts the selected file may hold: one the stripper changes, one it
\* returns unchanged (TokenError) and one it raises on (IndentationError).
\* The check-box settings tried on files: none ticked, or all four.
FileOptions ==
    {o \in Options :
        /\ o.squeeze_blank_lines = o.keep_shader_strings
        /\ o.keep_todo_comments = o.keep_shader_strings
        /\ o.remove_backslash_placeholders = o.keep_shader_strings}

FileTexts == {Comment \o Assignment, Assignment \o Continuation,
              Indented2 \o Indented1}

\* An os.path.exists that finds no file.
exists_never(fs, p) == FALSE

\* A shutil.copy2 that writes nothing.
copy2_nothing(fs, src, dst) == fs

\* os.path.exists(p)
exists(fs, p) == fs[p] # Absent

\* shutil.copy2(src, dst), when it succeeds
copy2(fs, src, dst) == [fs EXCEPT ![dst] = fs[src]]

\* with open(path, "w") as f: f.write(text), when it succeeds
write(fs, p, text) == [fs EXCEPT ![p] = text]

\* What a write that fails may have left of a text: nothing of it, or its
\* first character.
Partial(text) == {SubSeq(text, 1, n) : n \in 0..(IF Len(text) > 1 THEN 1 ELSE 0)}

(***************************************************************************)
(* The state.  First one call of remove_comments_and_docstrings(source,    *)
(* opts), step by step (and, under TwiceSpec, a second call on the text    *)
(* the first returned); then the files and one select_file handler at a    *)
(* time, which runs process_file and make_backup.                          *)
(***************************************************************************)
VARIABLES
    source,        \* the argument source
    opts,          \* the four keyword arguments
    pc,            \* the statement the call is at
    found,         \* string_stmt_positions, pos_to_string
    tokens,        \* tokens
    out_tokens,    \* out_tokens
    untokenized,   \* the value tokenize.untokenize returned
    new_source,    \* new_source
    result,        \* the value returned
    raised,        \* the exception that left the call, "" if none
    tok_err,       \* the exception generate_tokens raised, "" if none
    run,           \* 1 for the first call, 2 for the call on its result
    first,         \* in the second call, the argument and result of the first
    files,         \* the file system: the text each path holds, or Absent
    fpc,           \* the statement select_file / process_file is at
    fopts,         \* the options select_file read from the check boxes
    fsource,       \* process_file: source
    cleaned,       \* process_file: cleaned
    backup_path,   \* make_backup: backup_path
    counter,       \* make_backup: counter
    status,        \* status_var
    runs,          \* the number of files selected so far
    before,        \* the file system when the file was selected
    steps,         \* the steps of process_file done in this run, in order
    failed_at,     \* the step of this run that raised, "" if none
    made,          \* the backup paths shutil.copy2 has written in full
    clean_start    \* no backup file at the start and no failed copy since

svars ==
    <<source, opts, pc, found, tokens, out_tokens, untokenized, new_source,
      result, raised, tok_err, run, first>>

fvars ==
    <<files, fpc, fopts, fsource, cleaned, backup_path, counter, status, runs,
      before, steps, failed_at, made, clean_start>>

vars == <<svars, fvars>>

NoFound == [positions |-> {}, pos_to_string |-> {}]

AllOff ==
    [keep_shader_strings |-> FALSE, squeeze_blank_lines |-> FALSE,
     keep_todo_comments |-> FALSE, remove_backslash_placeholders |-> FALSE]

\* The state before a call of the stripper.
StripperIdle ==
    /\ found = NoFound
    /\ tokens = <<>>
    /\ out_tokens = <<>>
    /\ untokenized = <<>>
    /\ new_source = <<>>
    /\ result = <<>>
    /\ raised = ""
    /\ tok_err = ""
    /\ run = 1
    /\ first = [source |-> <<>>, result |-> <<>>]

\* The state before a file is selected.
FilesIdle ==
    /\ fpc = "idle"
    /\ fopts = AllOff
    /\ fsource = <<>>
    /\ cleaned = <<>>
    /\ backup_path = BakPath
    /\ counter = 1
    /\ status = ""
    /\ runs = 0
    /\ steps = <<>>
    /\ failed_at = ""
    /\ made = <<>>

Init ==
    /\ source \in Sources
    /\ opts \in Options
    /\ pc = "find_positions"
    /\ StripperIdle
    /\ files = [p \in Paths |-> Absent]
    /\ before = files
    /\ clean_start = TRUE
    /\ FilesIdle

\* string_stmt_positions, pos_to_string = find_string_statement_positions(source)
FindPositions ==
    /\ pc = "find_positions"
    /\ found' = find_string_statement_positions(source)
    /\ pc' = "tokenize"
    /\ UNCHANGED <<source, opts, tokens, out_tokens, untokenized, new_source,
                   result, raised, tok_err, run, first>>
    /\ UNCHANGED fvars

\* try: tokens = list(tokenize.generate_tokens(sio.readline))
\* except tokenize.TokenError: return source
Tokenize ==
    /\ pc = "tokenize"
    /\ LET lexed == generate_tokens(source) IN
       /\ tok_err' = lexed.err
       /\ \/ /\ lexed.err = ""
             /\ tokens' = lexed.toks
             /\ pc' = "filter"
             /\ UNCHANGED <<result, raised>>
          \/ /\ lexed.err = "TokenError"
             /\ result' = source
             /\ pc' = "returned"
             /\ UNCHANGED <<tokens, raised>>
          \/ /\ lexed.err \notin {"", "TokenError"}
             /\ raised' = lexed.err
             /\ pc' = "raised"
             /\ UNCHANGED <<tokens, result>>
    /\ UNCHANGED <<source, opts, found, out_tokens, untokenized, new_source,
                   run, first>>
    /\ UNCHANGED fvars

\* for tok in tokens: ... out_tokens.append(tok)
Filter ==
    /\ pc = "filter"
    /\ out_tokens' = FilterTokens(tokens, opts, found)
    /\ pc' = "untokenize"
    /\ UNCHANGED <<source, opts, found, tokens, untokenized, new_source,
                   result, raised, tok_err, run, first>>
    /\ UNCHANGED fvars

\* new_source = tokenize.untokenize(out_tokens)
Untokenize ==
    /\ pc = "untokenize"
    /\ LET untok == untokenize(out_tokens) IN
       /\ untokenized' = untok.text
       /\ new_source' = untok.text
       /\ raised' = untok.err
       /\ pc' = IF untok.err = "" THEN "squeeze" ELSE "raised"
    /\ UNCHANGED <<source, opts, found, tokens, out_tokens, result, tok_err,
                   run, first>>
    /\ UNCHANGED fvars

\* if squeeze_blank_lines: new_source = squeeze_empty_lines(new_source, 1)
Squeeze ==
    /\ pc = "squeeze"
    /\ new_source' = Squeezed(new_source, opts)
    /\ pc' = "placeholders"
    /\ UNCHANGED <<source, opts, found, tokens, out_tokens, untokenized,
                   result, raised, tok_err, run, first>>
    /\ UNCHANGED fvars

\* if remove_backslash_placeholders:
\*     new_source = remove_backslash_placeholder_lines(new_source)
RemovePlaceholders ==
    /\ pc = "placeholders"
    /\ new_source' = Unplaced(new_source, opts)
    /\ pc' = "return"
    /\ UNCHANGED <<source, opts, found, tokens, out_tokens, untokenized,
                   result, raised, tok_err, run, first>>
    /\ UNCHANGED fvars

\* return new_source
Return ==
    /\ pc = "return"
    /\ result' = new_source
    /\ pc' = "returned"
    /\ UNCHANGED <<source, opts, found, tokens, out_tokens, untokenized,
                   new_source, raised, tok_err, run, first>>
    /\ UNCHANGED fvars

\* The caller runs the stripper again, with the same options, on the text the
\* first call returned.
RunAgain ==
    /\ pc = "returned"
    /\ run = 1
    /\ source' = result
    /\ first' = [source |-> source, result |-> result]
    /\ run' = 2
    /\ pc' = "find_positions"
    /\ found' = NoFound
    /\ tokens' = <<>>
    /\ out_tokens' = <<>>
    /\ untokenized' = <<>>
    /\ new_source' = <<>>
    /\ result' = <<>>
    /\ tok_err' = ""
    /\ UNCHANGED <<opts, raised>>
    /\ UNCHANGED fvars

Next ==
    \/ FindPositions
    \/ Tokenize
    \/ Filter
    \/ Untokenize
    \/ Squeeze
    \/ RemovePlaceholders
    \/ Return

\* One call of the stripper on every input.
Spec == Init /\ [][Next]_vars

TwiceNext == Next \/ RunAgain

\* The stripper, and then the stripper on its own output.
TwiceSpec == Init /\ [][TwiceNext]_vars

(***************************************************************************)
(* The file selected holds a text; each backup path holds an earlier       *)
(* backup or nothing.                                                      *)
(***************************************************************************)
FileInit ==
    /\ source = <<>>
    /\ opts = AllOff
    /\ pc = "not_called"
    /\ StripperIdle
    /\ files \in [Paths -> FileTexts \cup {OldBackup, Absent}]
    /\ files[Path] \in FileTexts
    /\ \A p \in BackupPaths : files[p] \in {OldBackup, Absent}
    /\ before = files
    /\ clean_start = (\A p \in BackupPaths : ~exists(files, p))
    /\ FilesIdle

\* select_file: filepath = filedialog.askopenfilename(...); the four check
\* boxes are read; process_file is entered.
SelectFile ==
    /\ fpc = "idle"
    /\ runs < MaxRuns
    /\ runs' = runs + 1
    /\ fopts' \in FileOptions
    /\ before' = files
    /\ steps' = <<>>
    /\ failed_at' = ""
    /\ fpc' = "read"
    /\ UNCHANGED <<files, fsource, cleaned, backup_path, counter, status,
                   made, clean_start>>
    /\ UNCHANGED svars

\* select_file: if not filepath: return
Cancel ==
    /\ fpc = "idle"
    /\ UNCHANGED fvars
    /\ UNCHANGED svars

\* process_file: source, encoding = read_source_with_encoding(path)
ReadSource ==
    /\ fpc = "read"
    /\ steps' = Append(steps, "read")
    /\ \/ /\ fsource' = files[Path]
          /\ fpc' = "clean"
          /\ UNCHANGED failed_at
       \/ /\ failed_at' = "read"
          /\ fpc' = "failed"
          /\ UNCHANGED fsource
    /\ UNCHANGED <<files, fopts, cleaned, backup_path, counter, status, runs,
                   before, made, clean_start>>
    /\ UNCHANGED svars

\* process_file: cleaned = remove_comments_and_docstrings(source, ...),
\* the call
CleanCall ==
    /\ fpc = "clean"
    /\ steps' = Append(steps, "clean")
    /\ source' = fsource
    /\ opts' = fopts
    /\ pc' = "find_positions"
    /\ found' = NoFound
    /\ tokens' = <<>>
    /\ out_tokens' = <<>>
    /\ untokenized' = <<>>
    /\ new_source' = <<>>
    /\ result' = <<>>
    /\ raised' = ""
    /\ tok_err' = ""
    /\ fpc' = "cleaning"
    /\ UNCHANGED <<run, first>>
    /\ UNCHANGED <<files, fopts, fsource, cleaned, backup_path, counter,
                   status, runs, before, failed_at, made, clean_start>>

\* process_file: cleaned = remove_comments_and_docstrings(source, ...),
\* the return, or the exception passing through process_file
CleanReturn ==
    /\ fpc = "cleaning"
    /\ \/ /\ pc = "returned"
          /\ cleaned' = result
          /\ fpc' = "make_backup"
          /\ UNCHANGED failed_at
       \/ /\ pc = "raised"
          /\ failed_at' = "clean"
          /\ fpc' = "failed"
          /\ UNCHANGED cleaned
    /\ pc' = "not_called"
    /\ UNCHANGED <<source, opts, found, tokens, out_tokens, untokenized,
                   new_source, result, raised, tok_err, run, first>>
    /\ UNCHANGED <<files, fopts, fsource, backup_path, counter, status, runs,
                   before, steps, made, clean_start>>

\* make_backup: backup_path = path + ".bak"; counter = 1
BackupStart ==
    /\ fpc = "make_backup"
    /\ steps' = Append(steps, "backup")
    /\ backup_path' = BakPath
    /\ counter' = 1
    /\ fpc' = "probe"
    /\ UNCHANGED <<files, fopts, fsource, cleaned, status, runs, before,
                   failed_at, made, clean_start>>
    /\ UNCHANGED svars

\* make_backup: while os.path.exists(backup_path):
\*                  backup_path = f"{path}.bak{counter}"; counter += 1
BackupProbe ==
    /\ fpc = "probe"
    /\ exists(files, backup_path)
    /\ counter <= MaxBackups
    /\ backup_path' = NumberedBakPath(counter)
    /\ counter' = counter + 1
    /\ UNCHANGED <<files, fpc, fopts, fsource, cleaned, status, runs, before,
                   steps, failed_at, made, clean_start>>
    /\ UNCHANGED svars

\* make_backup: shutil.copy2(path, backup_path); return backup_path
BackupCopy ==
    /\ fpc = "probe"
    /\ ~exists(files, backup_path)
    /\ \/ /\ files' = copy2(files, Path, backup_path)
          /\ made' = Append(made, backup_path)
          /\ fpc' = "write"
          /\ UNCHANGED <<failed_at, clean_start>>
       \/ /\ \/ UNCHANGED files
             \/ \E t \in Partial(files[Path]) :
                    files' = [files EXCEPT ![backup_path] = t]
          /\ failed_at' = "backup"
          /\ clean_start' = FALSE
          /\ fpc' = "failed"
          /\ UNCHANGED made
    /\ UNCHANGED <<fopts, fsource, cleaned, backup_path, counter, status,
                   runs, before, steps>>
    /\ UNCHANGED svars

\* process_file: with open(path, "w", ...) as f: f.write(cleaned)
Write ==
    /\ fpc = "write"
    /\ steps' = Append(steps, "write")
    /\ \/ /\ files' = write(files, Path, cleaned)
          /\ fpc' = "done"
          /\ UNCHANGED failed_at
       \/ /\ \/ UNCHANGED files
             \/ \E t \in Partial(cleaned) : files' = write(files, Path, t)
          /\ failed_at' = "write"
          /\ fpc' = "failed"
    /\ UNCHANGED <<fopts, fsource, cleaned, backup_path, counter, status,
                   runs, before, made, clean_start>>
    /\ UNCHANGED svars

\* select_file: except Exception as e: messagebox.showerror(...);
\*              self.status_var.set("Error while processing file."); return
ReportError ==
    /\ fpc = "failed"
    /\ status' = "Error while processing file."
    /\ fpc' = "idle"
    /\ UNCHANGED <<files, fopts, fsource, cleaned, backup_path, counter, runs,
                   before, steps, failed_at, made, clean_start>>
    /\ UNCHANGED svars

\* select_file: self.status_var.set("Done. Backup created.");
\*              messagebox.showinfo("Success", msg)
ReportSuccess ==
    /\ fpc = "done"
    /\ status' = "Done. Backup created."
    /\ fpc' = "idle"
    /\ UNCHANGED <<files, fopts, fsource, cleaned, backup_path, counter, runs,
                   before, steps, failed_at, made, clean_start>>
    /\ UNCHANGED svars

FileNext ==
    \/ SelectFile
    \/ Cancel
    \/ ReadSource
    \/ CleanCall
    \/ Next
    \/ CleanReturn
    \/ BackupStart
    \/ BackupProbe
    \/ BackupCopy
    \/ Write
    \/ ReportError
    \/ ReportSuccess

\* Files selected and processed, one after another.
FileSpec == FileInit /\ [][FileNext]_vars

(***************************************************************************)
(* The properties of remove_comments_and_docstrings.                       *)
(***************************************************************************)
Range(s) == {s[i] : i \in 1..Len(s)}

\* The call has returned a text made from the tokens of its argument.
ReturnedFromTokens == pc = "returned" /\ tok_err = ""

\* The comment tokens of the argument.
Comments == {t \in Range(tokens) : t.type = "COMMENT"}

IsShebangComment(tok) ==
    tok.start[1] = 1 /\ StartsWith(tok.string, <<"#", "!">>)

IsEncodingComment(tok) ==
    /\ tok.start[1] \in {1, 2}
    /\ \/ Contains(tok.string, <<"c", "o", "d", "i", "n", "g", ":">>)
       \/ Contains(tok.string, <<"c", "o", "d", "i", "n", "g", "=">>)

\* The token is among the tokens kept and its text is in the text returned.
InOutput(tok) == tok \in Range(out_tokens) /\ Contains(result, tok.string)

\* C1: whenever generate_tokens fails on the argument, the call returns the
\* argument unchanged and raises nothing.
C1_FailOpen ==
    (pc \in {"returned", "raised"} /\ tok_err # "")
        => (pc = "returned" /\ raised = "" /\ result = source)

\* C4: a comment on line 1 that begins with '#!' and a comment on line 1 or 2
\* that contains 'coding:' or 'coding=' are among the tokens kept and in the
\* text returned, whatever the four options are.
C4_HeaderCommentsSurvive ==
    ReturnedFromTokens
        => \A t \in Comments :
               (IsShebangComment(t) \/ IsEncodingComment(t)) => InOutput(t)

\* A shebang on line 1 and an encoding declaration on line 2 went through a
\* call that keeps no TODO comment and does both kinds of post-processing.
C4_Witness ==
    /\ ReturnedFromTokens
    /\ ~opts.keep_todo_comments
    /\ opts.squeeze_blank_lines
    /\ opts.remove_backslash_placeholders
    /\ \E t \in Comments : IsShebangComment(t) /\ ~IsEncodingComment(t)
    /\ \E t \in Comments : IsEncodingComment(t) /\ t.start[1] = 2

\* C5: the second call, on the text the first call returned and with the same
\* options, returns that text unchanged.
C5_Idempotent ==
    (run = 2 /\ pc \in {"returned", "raised"})
        => (pc = "returned" /\ result = first.result)

\* The comment contains 'todo' in some letter case.
HasTodo(tok) == Contains(Lower(tok.string), <<"t", "o", "d", "o">>)

\* C6 as stated: with keep_todo_comments every comment that contains 'todo'
\* in any letter case is kept; without it every such comment is removed.
C6_TodoKeptOrRemoved ==
    ReturnedFromTokens
        => \A t \in Comments :
               HasTodo(t) =>
                   IF opts.keep_todo_comments THEN InOutput(t)
                   ELSE t \notin Range(out_tokens)

\* C6, amended: with keep_todo_comments every comment that contains 'todo' in
\* any letter case is kept; without it every such comment is removed, unless
\* it is a shebang on line 1 or an encoding declaration on line 1 or 2, which
\* is kept.
C6_TodoKeptOrRemovedButHeaders ==
    ReturnedFromTokens
        => \A t \in Comments :
               HasTodo(t) =>
                   IF opts.keep_todo_comments
                      \/ IsShebangComment(t) \/ IsEncodingComment(t)
                   THEN InOutput(t)
                   ELSE t \notin Range(out_tokens)

\* Without the option, a comment with 'Todo' is gone while the shebang with
\* 'todo' on line 1 is in the text returned.
C6_Witness ==
    /\ ReturnedFromTokens
    /\ ~opts.keep_todo_comments
    /\ \E t \in Comments : /\ HasTodo(t)
                           /\ t.string # Lower(t.string)
                           /\ ~IsShebangComment(t)
                           /\ t \notin Range(out_tokens)
    /\ \E t \in Comments : HasTodo(t) /\ IsShebangComment(t) /\ InOutput(t)

\* The start of every STRING token that is the first token of an expression
\* statement made of string literals only, in the coordinates of tokens (row,
\* column in characters), with the value of the statement.
BareStringStatements(src) ==
    LET lexed == generate_tokens(src)
        parsed == StmtsFrom(lexed.toks, 1, <<>>, <<>>)
    IN IF ~ast_parse(src).ok THEN {}
       ELSE {[start |-> parsed.stmts[i][1].start,
              value |-> ConstantValue(parsed.stmts[i])] :
                i \in {j \in 1..Len(parsed.stmts) :
                         IsBareString(parsed.stmts[j])}}

\* The number of shader keywords in a text, letter case ignored.
ShaderMatches(text) ==
    Cardinality({i \in 1..Len(keywords) : Contains(Lower(text), keywords[i])})

\* C7: a STRING token that starts a bare string statement is kept if and only
\* if keep_shader_strings is set and the value of the string contains at
\* least 2 of the shader keywords.
C7_BareStringKeptIffShader ==
    ReturnedFromTokens
        => \A s \in BareStringStatements(source) :
             \A t \in Range(tokens) :
               (t.type = "STRING" /\ t.start = s.start)
                   => ((t \in Range(out_tokens))
                          <=> (opts.keep_shader_strings
                                 /\ ShaderMatches(s.value) >= 2))

\* The lines of the text returned.
ResultLines == splitlines(result)

\* The tokens that make the content of row r: those that start on it, but
\* for the line ends and the indentation marks.
ContentOfRow(r) ==
    {t \in Range(tokens) :
        /\ t.start[1] = r
        /\ t.type \notin {"NL", "NEWLINE", "INDENT", "DEDENT", "ENDMARKER"}}

\* Row r holds one token only, on that row only, and the filter removed it.
HoldsOnlyARemovedToken(r) ==
    /\ Cardinality(ContentOfRow(r)) = 1
    /\ \A t \in ContentOfRow(r) : t.end[1] = r /\ t \notin Range(out_tokens)
    /\ \A t \in Range(tokens) : ~(t.start[1] < r /\ r <= t.end[1])

\* What the example of the specification is said to yield.
SpecExampleExpected ==
    <<"x", " ", "=", " ", "1", "\n", "y", " ", "=", " ", "2", "\n">>

\* What the example yields: the two lines removed are left as lines of 7 and
\* of 9 spaces.
SpecExampleResult ==
    Rep(" ", 7) \o <<"\n", "x", " ", "=", " ", "1", "\n">> \o Rep(" ", 9)
        \o <<"\n", "y", " ", "=", " ", "2", "\n">>

Blank(line) == \A i \in 1..Len(line) : line[i] \in {" ", "\n"}

NoTwoBlankLines(text) ==
    LET ls == splitlines(text)
    IN \A i \in 1..(Len(ls) - 1) : ~(Blank(ls[i]) /\ Blank(ls[i + 1]))

\* The lines of a text but for every blank line that follows a blank line:
\* of each run of blank lines the first is left.
FirstOfEachBlankRun(text) ==
    LET ls == splitlines(text)
        idx == {i \in 1..Len(ls) :
                   ~(Blank(ls[i]) /\ i > 1 /\ Blank(ls[i - 1]))}
        Nth(k) == CHOOSE i \in idx : Cardinality({j \in idx : j <= i}) = k
    IN [k \in 1..Cardinality(idx) |-> ls[Nth(k)]]

NonBlankLines(text) == SelectSeq(splitlines(text), LAMBDA l : ~Blank(l))

\* C9 as stated: with squeeze_blank_lines, whatever the other options are, the
\* text returned has no two consecutive blank lines.
C9_NoTwoBlankLinesReturned ==
    (ReturnedFromTokens /\ opts.squeeze_blank_lines) => NoTwoBlankLines(result)

\* C9, amended: with squeeze_blank_lines, whatever the other options are, the
\* squeeze step leaves of each run of blank lines exactly the first, so the
\* text it yields has no two consecutive blank lines and all the lines that
\* are not blank; the text returned has no two consecutive blank lines when
\* remove_backslash_placeholders is off.
C9_SqueezeStep ==
    /\ (pc = "placeholders" /\ opts.squeeze_blank_lines)
           => /\ splitlines(new_source) = FirstOfEachBlankRun(untokenized)
              /\ NoTwoBlankLines(new_source)
              /\ NonBlankLines(new_source) = NonBlankLines(untokenized)
    /\ (ReturnedFromTokens /\ opts.squeeze_blank_lines
            /\ ~opts.remove_backslash_placeholders)
           => NoTwoBlankLines(result)

\* The squeeze step shortened a run of blank lines, next to a line that is
\* not blank.
C9_Witness ==
    /\ pc = "placeholders"
    /\ opts.squeeze_blank_lines
    /\ ~NoTwoBlankLines(untokenized)
    /\ NonBlankLines(untokenized) # <<>>

\* The filter has run.
Filtered ==
    tok_err = "" /\ pc \in {"untokenize", "squeeze", "placeholders", "return",
                            "returned"}

\* a is b with some elements left out.
RECURSIVE IsSubsequence(_, _)
IsSubsequence(a, b) ==
    IF a = <<>> THEN TRUE
    ELSE IF b = <<>> THEN FALSE
    ELSE IF Head(a) = Head(b) THEN IsSubsequence(Tail(a), Tail(b))
    ELSE IsSubsequence(a, Tail(b))

\* A token that is neither a comment nor a string literal at the position of
\* a bare string statement.
NotRemovable(t) ==
    t.type # "COMMENT" /\ ~(t.type = "STRING" /\ t.start \in found.positions)

ProcessOrder == <<"read", "clean", "backup", "write">>

\* The backup names in the order make_backup tries them.
BackupNames ==
    [k \in 1..(MaxBackups + 1) |->
        IF k = 1 THEN BakPath ELSE NumberedBakPath(k - 1)]

\* What the selected file held when it was selected.
Original == before[Path]

\* C2: the steps of a run are read, clean, backup copy, write, in this order;
\* the selected file is changed only by the write step, when the backup holds
\* what the file held; when the read, the cleaning or the backup copy fails,
\* the file holds what it held and the run ends with the error status.
C2_BackupBeforeWrite ==
    /\ \E n \in 0..Len(ProcessOrder) : steps = SubSeq(ProcessOrder, 1, n)
    /\ "write" \in Range(steps)
           => backup_path \in BackupPaths /\ files[backup_path] = Original
    /\ files[Path] # Original => "write" \in Range(steps)
    /\ failed_at \in {"read", "clean", "backup"}
           => /\ files[Path] = Original
              /\ "write" \notin Range(steps)
              /\ fpc \in {"failed", "idle"}
              /\ fpc = "idle" => status = "Error while processing file."

\* A run changed the selected file, and a later run failed at the backup copy
\* and has reported the error.
C2_Witness ==
    /\ fpc = "idle"
    /\ failed_at = "backup"
    /\ status = "Error while processing file."
    /\ made # <<>>
    /\ files[Path] # files[made[1]]

\* shutil.copy2 has returned in this run.
BackupMade ==
    \/ fpc \in {"write", "done"}
    \/ "write" \in Range(steps)

\* C3: the path make_backup copies to did not exist and is the first free
\* name in the order .bak, .bak1, .bak2, ...; no backup that existed is
\* changed; runs that start without backups and without a failed copy make
\* .bak, then .bak1, then .bak2.
C3_FirstFreeBackupName ==
    /\ BackupMade
           => \E k \in DOMAIN BackupNames :
                  /\ backup_path = BackupNames[k]
                  /\ ~exists(before, BackupNames[k])
                  /\ \A j \in 1..(k - 1) : exists(before, BackupNames[j])
    /\ \A p \in BackupPaths : before[p] # Absent => files[p] = before[p]
    /\ clean_start => \A k \in 1..Len(made) : made[k] = BackupNames[k]

\* Three runs from a directory without backups have made .bak, .bak1, .bak2.
C3_Witness ==
    /\ clean_start
    /\ Len(made) = 3
    /\ fpc = "idle"
    /\ \A k \in 1..3 : files[BackupNames[k]] # Absent
====
